---- MODULE Spec2Model ----
(***************************************************************************)
(* prometheus-puppetdb: the poll loop of main() and the functions it calls *)
(* (loadRoleMapping, cleanupTargetsDir, getNodes, writeNodes).             *)
(*                                                                         *)
(* File names and exporter names are sequences of one-character strings,   *)
(* so that the regular-expression match of cleanupTargetsDir and the       *)
(* "<dir>/<job>.yml" formatting of writeNodes are computed, not assumed.   *)
(***************************************************************************)
EXTENDS Integers, Sequences, FiniteSets, TLC

VARIABLES
    pc,           \* position of main(): "load", "cleanup", "exporters", "parse", "sleep", "exited"
    exitCode,     \* exit status of the process, meaningful once pc = "exited"
    cfgSleep,     \* cfg.Sleep, fixed at start: "60s" (well formed) or "abc" (malformed)
    roleMapping,  \* the slice loaded by loadRoleMapping in this cycle
    dirExists,    \* whether cfg.TargetsDir exists
    dir,          \* cfg.TargetsDir: function from the names of its entries to their bytes
    e,            \* index (1-based) of the exporter being processed
    r,            \* index (1-based) of the next role of that exporter to query
    nodes,        \* the nodes accumulated for the exporter being processed
    roleBreak,    \* TRUE once the role loop of the current exporter has hit its break
    cycle,        \* number of the current cycle (1-based)
    loadOutcome,  \* what happened to the mapping file in this cycle's load
    dirAtStart,   \* history: dir when this cycle's load ran
    removed,      \* history: names this cycle's cleanupTargetsDir removed
    cleanupErr,   \* history: "none", "readdir" or "remove": how this cycle's cleanup ended
    results,      \* history: per exporter processed in this cycle, the results of its queries
    writes,       \* history: per exporter processed in this cycle, the outcome of its write
    prev,         \* history: the previous cycle's record
    loadedIn      \* history: the cycle in which roleMapping was loaded (0: not yet)

vars == << pc, exitCode, cfgSleep, roleMapping, dirExists, dir, e, r, nodes, roleBreak,
           cycle, loadOutcome, dirAtStart, removed, cleanupErr, results, writes, prev,
           loadedIn >>

-----------------------------------------------------------------------------
(* Bounds *)

MaxCycles == 2

-----------------------------------------------------------------------------
(* Strings *)

Str_yml  == << "y", "m", "l" >>
Str_yaml == << "y", "a", "m", "l" >>
Dot      == << "." >>

\* Byte value of the characters used, for the ordering of ioutil.ReadDir.
Ascii(c) ==
    CASE c = "(" -> 40
      [] c = "." -> 46
      [] c = "a" -> 97
      [] c = "b" -> 98
      [] c = "l" -> 108
      [] c = "m" -> 109
      [] c = "u" -> 117
      [] c = "x" -> 120
      [] c = "y" -> 121
      [] c = "z" -> 122

\* s < t in byte-wise lexicographic order.
RECURSIVE StrLess(_, _)
StrLess(s, t) ==
    IF t = << >> THEN FALSE
    ELSE IF s = << >> THEN TRUE
    ELSE IF Head(s) # Head(t) THEN Ascii(Head(s)) < Ascii(Head(t))
    ELSE StrLess(Tail(s), Tail(t))

\* The elements of a set of strings as a sequence in increasing order.
RECURSIVE SortedSeq(_)
SortedSeq(S) ==
    IF S = {} THEN << >>
    ELSE LET least == CHOOSE s \in S : \A t \in S \ {s} : StrLess(s, t)
         IN  << least >> \o SortedSeq(S \ {least})

\* s occurs in t starting at position i.
HasAt(t, i, s) ==
    /\ i + Len(s) - 1 <= Len(t)
    /\ \A k \in 1..Len(s) : t[i + k - 1] = s[k]

-----------------------------------------------------------------------------
(* The data *)

Node1 == [Certname |-> "n1", Ipaddress |-> "10.0.0.1"]
Node2 == [Certname |-> "n2", Ipaddress |-> "10.0.0.2"]

\* What one call of getNodes returns: (nodes, err). err is any of the errors of
\* lines 229-245 (request, transport, body, JSON), and nodes is then unused.
Returned(ns)  == [ err |-> FALSE, nodes |-> ns ]
QueryError    == [ err |-> TRUE, nodes |-> << >> ]
QueryResults  == { QueryError, Returned(<< >>), Returned(<< Node1 >>),
                   Returned(<< Node2, Node1 >>) }

Exp_a  == << "a" >>
Exp_b  == << "b" >>
Exp_ap == << "a", "(" >>

Entry(name, port, roles) ==
    [Exporter |-> name, Port |-> port, Path |-> "/metrics", Scheme |-> "http", Roles |-> roles]

\* The contents the role-mapping file takes in the model.
Mappings ==
    { << >>,
      << Entry(Exp_a, 9100, << "web", "db", "web" >>) >>,
      << Entry(Exp_b, 9103, << "web" >>), Entry(Exp_a, 9100, << "db" >>) >>,
      << Entry(Exp_a, 9100, << >>), Entry(Exp_ap, 9104, << "db" >>) >> }

\* Bytes of a file this program did not write, and of a file whose write failed
\* after it was opened (ioutil.WriteFile truncates on open).
Stale     == << << "stale" >> >>
Truncated == << >>

F(name, ext) == name \o Dot \o ext

\* The directory contents the program may find when it starts.
InitialNames ==
    { {},
      { F(Exp_a, Str_yml), F(Exp_a, Str_yaml) },
      { F(<< "a", "b" >>, Str_yml), F(<< "u" >>, Str_yml) },
      { << "a", "x", "y", "m", "l" >>, F(Exp_b, Str_yml) \o << "z" >>, F(Exp_ap, Str_yml) } }

-----------------------------------------------------------------------------
(* cleanupTargetsDir: the match of one directory entry against one exporter *)

\* regexp.MatchString compiles its pattern first. Over the characters of the
\* model a pattern "<exporter>.(yaml|yml)" fails to compile exactly when the
\* exporter name holds an unclosed "(".
Compiles(exporter) == \A k \in 1..Len(exporter) : exporter[k] # "("

\* One pattern character against one character of the name: "." matches any
\* character, every other character of the model matches itself.
PatChar(p, c) == p = "." \/ p = c

\* Mutant: the pattern accepts the extension "yaml" only.
MatchAt_YamlOnly(exporter, name, i) ==
    /\ i + Len(exporter) <= Len(name)
    /\ \A k \in 1..Len(exporter) : exporter[k] = "." \/ exporter[k] = name[i + k - 1]
    /\ HasAt(name, i + Len(exporter) + 1, Str_yaml)

\* The pattern matches the name starting at position i: the exporter name,
\* then any one character (the unescaped "."), then "yaml" or "yml".
MatchAt(exporter, name, i) ==
    /\ i + Len(exporter) <= Len(name)
    /\ \A k \in 1..Len(exporter) : PatChar(exporter[k], name[i + k - 1])
    /\ \/ HasAt(name, i + Len(exporter) + 1, Str_yaml)
       \/ HasAt(name, i + Len(exporter) + 1, Str_yml)

\* found, _ := regexp.MatchString(fmt.Sprintf("%s.(yaml|yml)", exporter), name):
\* the pattern is not anchored, and a compile error is dropped (found = false).
MatchString(exporter, name) ==
    /\ Compiles(exporter)
    /\ \E i \in 1..Len(name) : MatchAt(exporter, name, i)

\* The inner loop of cleanupTargetsDir: some exporter of roles matches the name.
Found(roles, name) ==
    \E k \in 1..Len(roles) : MatchString(roles[k].Exporter, name)

\* Mutant: only the entries with the extension .yml or .yaml are looked at.
Orphans_OnlyYamlFiles(d, roles) ==
    SelectSeq(SortedSeq(DOMAIN d),
              LAMBDA name : /\ ~Found(roles, name)
                            /\ \/ HasAt(name, Len(name) - 3, Dot \o Str_yml)
                               \/ HasAt(name, Len(name) - 4, Dot \o Str_yaml))

\* The entries cleanupTargetsDir removes, in the order ioutil.ReadDir lists them.
Orphans(d, roles) ==
    SelectSeq(SortedSeq(DOMAIN d), LAMBDA name : ~Found(roles, name))

Restrict(d, S) == [name \in S |-> d[name]]

\* Mutant: after an os.Remove that fails the loop goes on with the next entry.
CleanupTargetsDir_ContinuesAfterError(d, roles, failAt) ==
    LET orphans == Orphans(d, roles)
        gone    == { orphans[k] : k \in (1..Len(orphans)) \ {failAt} }
    IN  [ dir     |-> Restrict(d, DOMAIN d \ gone),
          removed |-> gone,
          err     |-> IF failAt = 0 THEN "none" ELSE "remove" ]

\* cleanupTargetsDir on directory d. failAt = 0: every os.Remove succeeds;
\* failAt = k: the k-th os.Remove fails and the function returns its error.
CleanupTargetsDir(d, roles, failAt) ==
    LET orphans == Orphans(d, roles)
        gone    == IF failAt = 0 THEN { orphans[k] : k \in 1..Len(orphans) }
                   ELSE { orphans[k] : k \in 1..(failAt - 1) }
    IN  [ dir     |-> Restrict(d, DOMAIN d \ gone),
          removed |-> gone,
          err     |-> IF failAt = 0 THEN "none" ELSE "remove" ]

-----------------------------------------------------------------------------
(* writeNodes *)

\* Mutant: the target is built from the node's certname, not its address.
Target_Certname(node, port) == << node.Certname, ":", port >>

\* fmt.Sprintf("%s:%v", node.Ipaddress, port)
Target(node, port) == << node.Ipaddress, ":", port >>

\* The loop of writeNodes: one Targets value per node, in order.
AllTargets(ns, port, path, scheme, job) ==
    [ k \in 1..Len(ns) |->
        [ Targets |-> << Target(ns[k], port) >>,
          Labels  |-> [ job          |-> job,
                        certname     |-> ns[k].Certname,
                        metrics_path |-> path,
                        scheme       |-> scheme ] ] ]

\* yaml.Marshal of one Targets value, as its lines; map keys come out sorted.
MarshalOne(t) ==
    << << "- targets:" >> >>
    \o [ k \in 1..Len(t.Targets) |-> << "  - " >> \o t.Targets[k] ]
    \o << << "  labels:" >>,
          << "    certname: ", t.Labels.certname >>,
          << "    job: " >> \o t.Labels.job,
          << "    metrics_path: ", t.Labels.metrics_path >>,
          << "    scheme: ", t.Labels.scheme >> >>

\* yaml.Marshal(&allTargets): the lines of the document; an empty slice is "[]".
RECURSIVE MarshalFrom(_, _)
MarshalFrom(all, k) ==
    IF k > Len(all) THEN << >> ELSE MarshalOne(all[k]) \o MarshalFrom(all, k + 1)

Marshal(all) == IF Len(all) = 0 THEN << << "[]" >> >> ELSE MarshalFrom(all, 1)

\* Mutant: the file is given the other extension the reconcile step accepts.
TargetFile_Yaml(job) == job \o Dot \o Str_yaml

\* fmt.Sprintf("%s/%s.yml", dir, job): the name of the entry inside the directory.
TargetFile(job) == job \o Dot \o Str_yml

\* d with entry name holding bytes, created when missing.
Put(d, name, bytes) ==
    [ n \in DOMAIN d \cup {name} |-> IF n = name THEN bytes ELSE d[n] ]

\* The bytes writeNodes hands to ioutil.WriteFile.
FileBytes(ns, port, path, scheme, job) == Marshal(AllTargets(ns, port, path, scheme, job))

\* Mutant: the file is opened for appending, so a write adds to the bytes it holds.
WriteNodes_Append(d, ns, port, path, scheme, job, outcome) ==
    LET name == TargetFile(job)
        old  == IF name \in DOMAIN d THEN d[name] ELSE << >>
    IN  CASE outcome = "ok"    -> Put(d, name, old \o FileBytes(ns, port, path, scheme, job))
          [] outcome = "trunc" -> Put(d, name, old)
          [] outcome = "fail"  -> d

\* Mutant: nothing is written for an exporter without nodes.
WriteNodes_SkipEmpty(d, ns, port, path, scheme, job, outcome) ==
    CASE outcome = "ok" /\ ns # << >> ->
             Put(d, TargetFile(job), FileBytes(ns, port, path, scheme, job))
      [] outcome = "ok" /\ ns = << >> -> d
      [] outcome = "trunc" -> Put(d, TargetFile(job), Truncated)
      [] outcome = "fail"  -> d

\* Mutant: a file that exists is left as it is (created with O_EXCL).
WriteNodes_KeepExisting(d, ns, port, path, scheme, job, outcome) ==
    CASE outcome = "ok" /\ TargetFile(job) \notin DOMAIN d ->
             Put(d, TargetFile(job), FileBytes(ns, port, path, scheme, job))
      [] outcome = "ok" /\ TargetFile(job) \in DOMAIN d -> d
      [] outcome = "trunc" -> Put(d, TargetFile(job), Truncated)
      [] outcome = "fail"  -> d

\* writeNodes on directory d. outcome "ok": the file holds the marshalled bytes;
\* "trunc": WriteFile opened (and truncated) the file, then failed;
\* "fail": WriteFile could not open the file, which is left as it was.
WriteNodes(d, ns, port, path, scheme, job, outcome) ==
    CASE outcome = "ok"    -> Put(d, TargetFile(job), FileBytes(ns, port, path, scheme, job))
      [] outcome = "trunc" -> Put(d, TargetFile(job), Truncated)
      [] outcome = "fail"  -> d

WriteOutcomes == { "ok", "trunc", "fail" }

-----------------------------------------------------------------------------
(* The process *)

NoRecord == [ mapping |-> << >>, results |-> << >>, writes |-> << >>, done |-> FALSE ]

Init ==
    /\ pc = "load"
    /\ exitCode = 0
    /\ cfgSleep \in { "60s", "abc" }
    /\ roleMapping = << >>
    /\ dirExists \in BOOLEAN
    /\ \E names \in InitialNames :
          dir = IF dirExists THEN [ name \in names |-> Stale ] ELSE [ name \in {} |-> Stale ]
    /\ e = 1
    /\ r = 1
    /\ nodes = << >>
    /\ roleBreak = FALSE
    /\ cycle = 1
    /\ loadOutcome = "none"
    /\ dirAtStart = dir
    /\ removed = {}
    /\ cleanupErr = "none"
    /\ results = << >>
    /\ writes = << >>
    /\ prev = NoRecord
    /\ loadedIn = 0

\* os.Exit(code), or main returning (code 0).
Exit(code) ==
    /\ pc' = "exited"
    /\ exitCode' = code

\* Lines 111-116: loadRoleMapping and the check of its error. The error of
\* ioutil.ReadFile is overwritten by that of yaml.Unmarshal, which is nil for
\* the empty input an unreadable file leaves: the mapping is then empty.
LoadRoleMapping ==
    /\ pc = "load"
    /\ \/ \E m \in Mappings :
             /\ loadOutcome' = "ok"
             /\ roleMapping' = m
             /\ pc' = "cleanup"
             /\ UNCHANGED exitCode
       \/ /\ loadOutcome' = "unreadable"
          /\ roleMapping' = << >>
          /\ pc' = "cleanup"
          /\ UNCHANGED exitCode
       \/ /\ loadOutcome' = "malformed"
          /\ roleMapping' = << >>
          /\ Exit(1)
    /\ dirAtStart' = dir
    /\ removed' = {}
    /\ cleanupErr' = "none"
    /\ results' = << >>
    /\ writes' = << >>
    /\ e' = 1
    /\ r' = 1
    /\ nodes' = << >>
    /\ roleBreak' = FALSE
    /\ loadedIn' = cycle
    /\ UNCHANGED << cfgSleep, dirExists, dir, cycle, prev >>

\* Where main goes after the exporter at index k - 1: the next exporter, or
\* the parse of the sleep duration when the range loop is over.
AfterExporter(k) == IF k <= Len(roleMapping) THEN "exporters" ELSE "parse"

\* Mutant: a missing directory is listed as an empty one.
ReadDirCanSucceed_WhenMissing(exists) == TRUE

\* Line 196: ioutil.ReadDir can list the directory only if it exists.
ReadDirCanSucceed(exists) == exists

\* Lines 119-123: cleanupTargetsDir and the check of its error.
Cleanup ==
    /\ pc = "cleanup"
    /\ \/ \* ioutil.ReadDir fails: always when the directory is missing
          /\ cleanupErr' = "readdir"
          /\ Exit(1)
          /\ UNCHANGED << dir, removed, results >>
       \/ /\ ReadDirCanSucceed(dirExists)
          /\ \E failAt \in 0..Len(Orphans(dir, roleMapping)) :
                LET res == CleanupTargetsDir(dir, roleMapping, failAt)
                IN  /\ dir' = res.dir
                    /\ removed' = res.removed
                    /\ cleanupErr' = res.err
                    /\ IF res.err = "none"
                       THEN /\ pc' = AfterExporter(1)
                            /\ results' = [ k \in 1..Len(roleMapping) |-> << >> ]
                            /\ UNCHANGED exitCode
                       ELSE /\ Exit(1)
                            /\ UNCHANGED results
    /\ UNCHANGED << cfgSleep, roleMapping, dirExists, e, r, nodes, roleBreak, cycle,
                    loadOutcome, dirAtStart, writes, prev, loadedIn >>

\* Mutant: a query error leaves the exporter loop as a write error does.
AfterQueryError_LeavesExporterLoop == "parse"

\* Line 135: the break on a query error leaves the role loop only; main goes
\* on inside the exporter loop, to the write of the current exporter.
AfterQueryError == "exporters"

\* Mutant: a write error ends the process as the errors before the loop do.
AfterWriteError_Exits == "exited"

\* Line 144: the break on a write error leaves the exporter loop.
AfterWriteError == "parse"

\* Mutant: the nodes of a role replace those accumulated so far.
Accumulate_Overwrite(ns, tmpNodes) == tmpNodes

\* Mutant: a node already accumulated for an earlier role is not added again.
Accumulate_Dedup(ns, tmpNodes) ==
    ns \o SelectSeq(tmpNodes, LAMBDA n : \A i \in 1..Len(ns) : ns[i] # n)

\* Line 137: nodes = append(nodes, tmpNodes...)
Accumulate(ns, tmpNodes) == ns \o tmpNodes

\* Lines 129-138: one pass of the role loop, a call of getNodes.
GetNodes ==
    /\ pc = "exporters"
    /\ ~roleBreak
    /\ r <= Len(roleMapping[e].Roles)
    /\ \E res \in QueryResults :
          /\ results' = [ results EXCEPT ![e] = Append(@, res) ]
          /\ IF res.err
             THEN /\ roleBreak' = TRUE
                  /\ pc' = AfterQueryError
                  /\ UNCHANGED << nodes, r >>
             ELSE /\ nodes' = Accumulate(nodes, res.nodes)
                  /\ r' = r + 1
                  /\ UNCHANGED << pc, roleBreak >>
    /\ UNCHANGED << exitCode, cfgSleep, roleMapping, dirExists, dir, e, cycle,
                    loadOutcome, dirAtStart, removed, cleanupErr, writes, prev, loadedIn >>

\* Lines 141-145: writeNodes for the current exporter once its role loop is
\* over; a write error breaks out of the exporter loop.
WriteNodesStep ==
    /\ pc = "exporters"
    /\ roleBreak \/ r > Len(roleMapping[e].Roles)
    /\ \E outcome \in WriteOutcomes :
          /\ dir' = WriteNodes(dir, nodes, roleMapping[e].Port, roleMapping[e].Path,
                               roleMapping[e].Scheme, roleMapping[e].Exporter, outcome)
          /\ writes' = Append(writes, outcome)
          /\ IF outcome = "ok"
             THEN /\ pc' = AfterExporter(e + 1)
                  /\ e' = e + 1
             ELSE /\ pc' = AfterWriteError
                  /\ UNCHANGED e
    /\ r' = 1
    /\ nodes' = << >>
    /\ roleBreak' = FALSE
    /\ dirExists' = TRUE
    /\ UNCHANGED << exitCode, cfgSleep, roleMapping, cycle, loadOutcome, dirAtStart,
                    removed, cleanupErr, results, prev, loadedIn >>

\* time.ParseDuration on the values of cfg.Sleep the model takes.
ParseDurationOk(s) == s = "60s"

\* Lines 149-153: the sleep duration is parsed; on error the loop is left with
\* break and main returns.
ParseDuration ==
    /\ pc = "parse"
    /\ IF ParseDurationOk(cfgSleep)
       THEN /\ pc' = "sleep"
            /\ UNCHANGED exitCode
       ELSE Exit(0)
    /\ UNCHANGED << cfgSleep, roleMapping, dirExists, dir, e, r, nodes, roleBreak, cycle,
                    loadOutcome, dirAtStart, removed, cleanupErr, results, writes, prev, loadedIn >>

\* Mutant: the mapping is read once, before the loop; a new cycle starts at
\* the reconcile step with the mapping of the cycle before.
AfterSleep_KeepsMapping == "cleanup"

\* Line 110: the body of the for loop starts over at loadRoleMapping.
AfterSleep == "load"

\* Lines 154-156: time.Sleep returns and the loop starts over.
Sleep ==
    /\ pc = "sleep"
    /\ cycle < MaxCycles
    /\ pc' = AfterSleep
    /\ cycle' = cycle + 1
    /\ prev' = [ mapping |-> roleMapping, results |-> results, writes |-> writes,
                 done |-> TRUE ]
    /\ UNCHANGED << exitCode, cfgSleep, roleMapping, dirExists, dir, e, r, nodes, roleBreak,
                    loadOutcome, dirAtStart, removed, cleanupErr, results, writes, loadedIn >>

Next ==
    \/ LoadRoleMapping
    \/ Cleanup
    \/ GetNodes
    \/ WriteNodesStep
    \/ ParseDuration
    \/ Sleep

Spec == Init /\ [][Next]_vars

\* Lines 154-156 without the cycle counter and the record of the cycle, which
\* are history only: the loop has no bound of its own.
SleepUnbounded ==
    /\ pc = "sleep"
    /\ pc' = AfterSleep
    /\ UNCHANGED << exitCode, cfgSleep, roleMapping, dirExists, dir, e, r, nodes, roleBreak,
                    cycle, loadOutcome, dirAtStart, removed, cleanupErr, results, writes,
                    prev, loadedIn >>

LiveNext ==
    \/ LoadRoleMapping
    \/ Cleanup
    \/ GetNodes
    \/ WriteNodesStep
    \/ ParseDuration
    \/ SleepUnbounded

\* The unbounded loop. main is one sequential thread: as long as every call it
\* makes returns, it takes its next step.
LiveSpec == Init /\ [][LiveNext]_vars /\ WF_vars(LiveNext)

-----------------------------------------------------------------------------
(* Vocabulary of the properties *)

ExporterNames(m) == { m[k].Exporter : k \in 1..Len(m) }

\* "<x>.yml"
YmlName(x) == x \o << ".", "y", "m", "l" >>

\* The names <exporter>.yml of the exporters of mapping m.
TargetFiles(m) == { YmlName(x) : x \in ExporterNames(m) }

\* name is "<E>.yml" for a non-empty E, and then E.
IsYmlName(name) == Len(name) > 4 /\ HasAt(name, Len(name) - 3, Dot \o Str_yml)
IsYamlName(name) == Len(name) > 5 /\ HasAt(name, Len(name) - 4, Dot \o Str_yaml)
YmlStem(name) == SubSeq(name, 1, Len(name) - 4)
YamlStem(name) == SubSeq(name, 1, Len(name) - 5)

\* The reconcile step of this cycle has run to its end.
Reconciled == pc \in { "exporters", "parse", "sleep" } /\ cleanupErr = "none"

\* The exporter loop of this cycle is over.
EndOfPass == pc \in { "parse", "sleep" } /\ cleanupErr = "none"

QueryFailed(k) == \E q \in 1..Len(results[k]) : results[k][q].err

AllQueriesOk == \A k \in 1..Len(results) : ~QueryFailed(k)

AllWritesOk(w) == \A k \in 1..Len(w) : w[k] = "ok"

\* A cycle in which the load, the reconcile step, every query and every write succeeded.
CycleSucceeded ==
    /\ EndOfPass
    /\ loadOutcome = "ok"
    /\ AllQueriesOk
    /\ Len(writes) = Len(roleMapping)
    /\ AllWritesOk(writes)

-----------------------------------------------------------------------------
(* C1 *)

-----------------------------------------------------------------------------
(* C2 *)

\* C2 as stated: a file <E>.yml present at the start of a cycle whose mapping
\* does not list E is gone once the reconcile step of that cycle has run.
C2_Original ==
    Reconciled =>
        \A name \in DOMAIN dirAtStart :
            (IsYmlName(name) /\ YmlStem(name) \notin ExporterNames(roleMapping))
                => name \notin DOMAIN dir

-----------------------------------------------------------------------------
(* C3 *)

\* The nodes of a sequence of query results, concatenated in order.
RECURSIVE NodesOf(_)
NodesOf(rs) == IF rs = << >> THEN << >> ELSE Head(rs).nodes \o NodesOf(Tail(rs))

\* The bytes writeNodes gives the file of mapping entry x for the node list ns.
BytesFor(x, ns) == FileBytes(ns, x.Port, x.Path, x.Scheme, x.Exporter)

\* In the previous cycle every role of exporter k was queried with success and
\* its file was written.
FullyAggregatedBefore(k) ==
    /\ prev.done
    /\ prev.mapping = roleMapping
    /\ k <= Len(prev.writes)
    /\ prev.writes[k] = "ok"
    /\ Len(prev.results[k]) = Len(roleMapping[k].Roles)
    /\ \A q \in 1..Len(prev.results[k]) : ~prev.results[k][q].err

\* C3 as stated: at the end of a cycle an exporter's file holds the nodes of
\* all its roles as of the last cycle in which all its queries succeeded; a
\* cycle in which one of its queries fails leaves the file as that cycle wrote it.
C3_Original ==
    EndOfPass =>
        \A k \in 1..Len(writes) :
            (FullyAggregatedBefore(k) /\ QueryFailed(k) /\ writes[k] = "ok")
                => dir[YmlName(roleMapping[k].Exporter)]
                       = BytesFor(roleMapping[k], NodesOf(prev.results[k]))

-----------------------------------------------------------------------------
(* C4 *)

\* C4 as stated: when the mapping file cannot be read or parsed, the process
\* exits with code 1 before the reconcile step: nothing is deleted, queried or written.
C4_Original ==
    loadOutcome \in { "unreadable", "malformed" } =>
        /\ pc = "exited"
        /\ exitCode = 1
        /\ dir = dirAtStart
        /\ results = << >>
        /\ writes = << >>

-----------------------------------------------------------------------------
(* C5 *)

\* C5 as stated: a failed write of exporter i abandons exporter i only; every
\* exporter after i is still aggregated and written in the same cycle.
C5_Original ==
    EndOfPass =>
        \A i \in 1..Len(writes) :
            writes[i] # "ok" =>
                \A j \in (i + 1)..Len(roleMapping) :
                    /\ j <= Len(writes)
                    /\ roleMapping[j].Roles # << >> => results[j] # << >>

-----------------------------------------------------------------------------
(* C6 *)

\* The process ended at the parse of the sleep duration.
ExitedAtParse == pc = "exited" /\ loadOutcome # "malformed" /\ cleanupErr = "none"

\* C6 as stated: a malformed sleep duration ends the process with exit code 1.
C6_Original ==
    (ExitedAtParse /\ ~ParseDurationOk(cfgSleep)) => exitCode = 1

-----------------------------------------------------------------------------
(* C7 *)

\* The role loop of exporter j ran as far as the code lets it: over every role,
\* or up to the first query that failed.
RolesQueried(j) ==
    \/ Len(results[j]) = Len(roleMapping[j].Roles)
    \/ QueryFailed(j)

\* C7: at the end of the exporter loop of a cycle in which no write failed,
\* every exporter j after an exporter i one of whose queries failed has had its
\* roles queried and its file written.
C7_QueryFailureContained ==
    (EndOfPass /\ AllWritesOk(writes)) =>
        \A i \in 1..Len(roleMapping) : \A j \in (i + 1)..Len(roleMapping) :
            QueryFailed(i) =>
                /\ j <= Len(writes)
                /\ RolesQueried(j)
                /\ roleMapping[j].Roles # << >> => results[j] # << >>
                /\ YmlName(roleMapping[j].Exporter) \in DOMAIN dir

\* The first exporter's query failed; the second was queried with success and written.
C7_Witness ==
    /\ EndOfPass
    /\ Len(roleMapping) = 2
    /\ QueryFailed(1)
    /\ Len(writes) = 2 /\ AllWritesOk(writes)
    /\ results[2] # << >> /\ ~QueryFailed(2)
    /\ dir[YmlName(roleMapping[2].Exporter)] = BytesFor(roleMapping[2], NodesOf(results[2]))

-----------------------------------------------------------------------------
(* C8 *)

\* C8: a failed query is the last query of its exporter in the cycle; the
\* exporter's write is still attempted, and when it succeeds the file holds
\* exactly the nodes of the roles before the failed one, in role order.
C8_PartialWriteOnQueryError ==
    /\ \A k \in 1..Len(results) :
          /\ Len(results[k]) <= Len(roleMapping[k].Roles)
          /\ \A q \in 1..Len(results[k]) : results[k][q].err => q = Len(results[k])
    /\ EndOfPass => \A k \in 1..Len(results) : QueryFailed(k) => k <= Len(writes)
    /\ \A k \in 1..Len(writes) :
          (QueryFailed(k) /\ writes[k] = "ok") =>
              /\ YmlName(roleMapping[k].Exporter) \in DOMAIN dir
              /\ dir[YmlName(roleMapping[k].Exporter)]
                     = BytesFor(roleMapping[k],
                                NodesOf(SubSeq(results[k], 1, Len(results[k]) - 1)))

\* The third role's query failed after two roles returned nodes, and the file was written.
C8_Witness ==
    /\ Len(writes) >= 1
    /\ writes[1] = "ok"
    /\ Len(results[1]) = 3
    /\ results[1][3].err
    /\ results[1][1].nodes # << >>
    /\ results[1][2].nodes # << >>

-----------------------------------------------------------------------------
(* C9 *)

\* name is <e>.yml or <e>.yaml for an exporter e of mapping m.
NamesExporter(m, name) ==
    \E x \in ExporterNames(m) : name = x \o Dot \o Str_yml \/ name = x \o Dot \o Str_yaml

\* C9 as stated: the reconcile step removes exactly the entries whose whole
\* name is not <e>.yml or <e>.yaml for an exporter e of the mapping.
C9_Original ==
    Reconciled =>
        removed = { name \in DOMAIN dirAtStart : ~NamesExporter(roleMapping, name) }

-----------------------------------------------------------------------------
(* C10 *)

\* This cycle repeated the previous one: the same mapping, the same result for
\* every query, every write successful in both.
Repeated ==
    /\ EndOfPass
    /\ prev.done
    /\ prev.mapping = roleMapping
    /\ prev.results = results
    /\ Len(prev.writes) = Len(roleMapping) /\ AllWritesOk(prev.writes)
    /\ Len(writes) = Len(roleMapping) /\ AllWritesOk(writes)

\* C10: a cycle that repeats the previous one leaves the directory as the
\* previous cycle left it: the same entries with the same bytes.
C10_Idempotent ==
    Repeated => dir = dirAtStart

\* A repeated cycle over two exporters, one of whose files holds two nodes.
C10_Witness ==
    /\ Repeated
    /\ Len(roleMapping) = 2
    /\ \E k \in 1..2 : Len(NodesOf(results[k])) = 2

-----------------------------------------------------------------------------
(* C11 *)

\* The bytes of a target file without entries.
EmptyDocument == << << "[]" >> >>

\* Every role of exporter k was queried with success and none returned a node
\* (also: exporter k has no role).
AggregatedNothing(k) ==
    /\ Len(results[k]) = Len(roleMapping[k].Roles)
    /\ \A q \in 1..Len(results[k]) : ~results[k][q].err /\ results[k][q].nodes = << >>

\* C11: a successful write for an exporter whose aggregated node list is empty
\* leaves <exporter>.yml in the directory, holding the empty entry list and
\* nothing of what it held before.
C11_EmptyListStillWritten ==
    \A k \in 1..Len(writes) :
        (writes[k] = "ok" /\ AggregatedNothing(k)) =>
            /\ YmlName(roleMapping[k].Exporter) \in DOMAIN dir
            /\ dir[YmlName(roleMapping[k].Exporter)] = EmptyDocument

\* An exporter whose file held entries at the start of the cycle has aggregated
\* nothing and been written.
C11_Witness ==
    \E k \in 1..Len(writes) :
        /\ writes[k] = "ok"
        /\ AggregatedNothing(k)
        /\ YmlName(roleMapping[k].Exporter) \in DOMAIN dirAtStart
        /\ Len(dirAtStart[YmlName(roleMapping[k].Exporter)]) > 1

-----------------------------------------------------------------------------
(* C12 *)

\* The number of entries of a target file: each starts with a "- targets:" line.
EntryCount(bytes) ==
    Cardinality({ i \in 1..Len(bytes) : Len(bytes[i]) = 1 /\ bytes[i][1] = "- targets:" })

\* The sum of the lengths of the node lists of a sequence of query results.
RECURSIVE SumLen(_)
SumLen(rs) == IF rs = << >> THEN 0 ELSE Len(Head(rs).nodes) + SumLen(Tail(rs))

\* Every role of exporter k was queried with success.
AllRolesReturned(k) ==
    /\ Len(results[k]) = Len(roleMapping[k].Roles)
    /\ ~QueryFailed(k)

\* C12: when all the queries of an exporter succeed, the file written holds the
\* node lists of its roles concatenated in role order, duplicates kept: as many
\* entries as the lists have nodes together.
C12_ConcatenationInRoleOrder ==
    \A k \in 1..Len(writes) :
        (writes[k] = "ok" /\ AllRolesReturned(k)) =>
            /\ dir[YmlName(roleMapping[k].Exporter)]
                   = BytesFor(roleMapping[k], NodesOf(results[k]))
            /\ EntryCount(dir[YmlName(roleMapping[k].Exporter)]) = SumLen(results[k])

\* Three roles returned two, one and two nodes, one node in all three lists: five entries.
C12_Witness ==
    /\ Len(writes) >= 1
    /\ writes[1] = "ok"
    /\ Len(results[1]) = 3
    /\ results[1][1].nodes = << Node2, Node1 >>
    /\ results[1][2].nodes = << Node1 >>
    /\ results[1][3].nodes = << Node2, Node1 >>
    /\ EntryCount(dir[YmlName(roleMapping[1].Exporter)]) = 5

-----------------------------------------------------------------------------
(* C13 *)

\* The lines of the one entry the claim gives node n under mapping entry x: a
\* target list of the single element <address>:<port>, and the four labels.
ExpectedEntry(n, x) ==
    << << "- targets:" >>,
       << "  - ", n.Ipaddress, ":", x.Port >>,
       << "  labels:" >>,
       << "    certname: ", n.Certname >>,
       << "    job: " >> \o x.Exporter,
       << "    metrics_path: ", x.Path >>,
       << "    scheme: ", x.Scheme >> >>

\* bytes holds exactly one such entry per node of ns, in the order of ns.
OneEntryPerNode(bytes, ns, x) ==
    IF ns = << >> THEN bytes = EmptyDocument
    ELSE /\ Len(bytes) = 7 * Len(ns)
         /\ \A i \in 1..Len(ns) :
               SubSeq(bytes, 7 * (i - 1) + 1, 7 * i) = ExpectedEntry(ns[i], x)

\* A step in which writeNodes succeeds for the current exporter.
WriteSucceeds ==
    /\ pc = "exporters"
    /\ Len(writes') = Len(writes) + 1
    /\ writes'[Len(writes')] = "ok"

\* C13: the writer, given the accumulated node list and the port, path, scheme
\* and name of the current exporter, produces exactly one entry per node, in
\* order, with the target <address>:<port> and the four labels.
C13_OneEntryPerNode ==
    [][ WriteSucceeds =>
            OneEntryPerNode(dir'[YmlName(roleMapping[e].Exporter)], nodes, roleMapping[e]) ]_vars

\* A file of two entries for the second exporter of a mapping has been written.
C13_Witness ==
    /\ Len(writes) = 2
    /\ writes[2] = "ok"
    /\ Len(NodesOf(results[2])) = 2
    /\ OneEntryPerNode(dir[YmlName(roleMapping[2].Exporter)], << Node2, Node1 >>, roleMapping[2])

-----------------------------------------------------------------------------
(* C14 *)

\* The entries of the directory at the start of the cycle that match no
\* exporter of the mapping.
OrphansAtStart == { name \in DOMAIN dirAtStart : ~Found(roleMapping, name) }

\* C14: when the listing of the directory or the removal of an orphan fails,
\* the process has exited with code 1 and takes no further step: no query and
\* no write of the cycle is made. After a failed listing nothing was removed;
\* after a failed removal the orphan it failed on and every orphan listed
\* after it are still there.
C14_ReconcileFailureIsFatal ==
    cleanupErr # "none" =>
        /\ pc = "exited"
        /\ exitCode = 1
        /\ ~ENABLED Next
        /\ results = << >>
        /\ writes = << >>
        /\ removed \subseteq OrphansAtStart
        /\ DOMAIN dir = DOMAIN dirAtStart \ removed
        /\ cleanupErr = "readdir" => removed = {}
        /\ cleanupErr = "remove" =>
              /\ OrphansAtStart \ removed # {}
              /\ \A gone \in removed : \A left \in OrphansAtStart \ removed :
                    StrLess(gone, left)

\* The removal of the second of three orphans failed.
C14_Witness ==
    /\ cleanupErr = "remove"
    /\ pc = "exited"
    /\ Cardinality(removed) = 1
    /\ Cardinality(OrphansAtStart) = 3

-----------------------------------------------------------------------------
(* C15 *)

\* A step that removes an entry of the directory.
DeletesEntry == \E name \in DOMAIN dir : name \notin DOMAIN dir'

\* A step that issues the query of a role of exporter k.
QueriesFor(k) ==
    /\ Len(results') = Len(results)
    /\ k \in 1..Len(results)
    /\ results'[k] # results[k]

\* A step that makes the write of an exporter, the Len(writes')-th of the cycle.
WritesFile == Len(writes') = Len(writes) + 1

\* The order of the steps of one cycle, step by step.
C15_StepOrder ==
    \* the mapping changes in the load step only, and a cycle starts with it
    /\ roleMapping' # roleMapping => pc = "load"
    /\ cycle' # cycle => (pc = "sleep" /\ pc' = "load" /\ cycle' = cycle + 1)
    \* the load of a cycle follows the sleep of the cycle before
    /\ (pc' = "load" /\ pc # "load") => pc = "sleep"
    \* deletions are made by the reconcile step, before any query or write of the cycle
    /\ DeletesEntry =>
          (pc = "cleanup" /\ writes = << >> /\ \A k \in 1..Len(results) : results[k] = << >>)
    \* the queries of exporter k come after the writes of the k - 1 exporters
    \* before it, which had their own queries, and before any query or write of
    \* an exporter after it
    /\ \A k \in 1..Len(results) :
          QueriesFor(k) =>
              /\ pc = "exporters" /\ e = k
              /\ Len(writes) = k - 1 /\ writes' = writes
              /\ \A j \in 1..(k - 1) : RolesQueried(j)
              /\ \A j \in (k + 1)..Len(results) : results[j] = << >>
    \* the write of exporter k comes after its own queries
    /\ WritesFile =>
          /\ pc = "exporters" /\ e = Len(writes')
          /\ RolesQueried(e)
          /\ results' = results
          /\ \A j \in (e + 1)..Len(results) : results[j] = << >>
    \* the sleep follows the parse of its duration, which follows the exporter loop
    /\ (pc' = "sleep" /\ pc # "sleep") => pc = "parse"
    /\ (pc' = "parse" /\ pc # "parse") =>
          \/ pc = "cleanup" /\ roleMapping = << >>
          \/ pc = "exporters" /\ WritesFile
                /\ (Len(writes') = Len(roleMapping) \/ writes'[Len(writes')] # "ok")

\* C15: the steps of the poll loop are strictly ordered. Past its load step a
\* cycle works on the mapping loaded in that same cycle, and every step keeps
\* the order load, reconcile, per exporter (in mapping order) queries then
\* write, parse, sleep, next load.
C15_StrictOrder ==
    /\ [](pc \in { "cleanup", "exporters", "parse", "sleep" } => loadedIn = cycle)
    /\ [][C15_StepOrder]_vars

\* The second cycle, under another mapping than the first, has removed an
\* entry, queried and written two exporters and reached the sleep.
C15_Witness ==
    /\ cycle = 2
    /\ pc = "sleep"
    /\ prev.mapping # roleMapping
    /\ removed # {}
    /\ Len(writes) = 2
    /\ results[1] # << >> /\ results[2] # << >>

-----------------------------------------------------------------------------
(* C16 *)

\* One of the errors main answers by ending the process has occurred.
FatalError ==
    \/ loadOutcome = "malformed"
    \/ cleanupErr # "none"
    \/ ~ParseDurationOk(cfgSleep)

\* A query or a write of the cycle failed.
CycleHadFailure ==
    \/ \E k \in 1..Len(results) : QueryFailed(k)
    \/ \E k \in 1..Len(writes) : writes[k] # "ok"

\* C16: the process ends on a fatal error only; without one, cycles are run for
\* ever, and the end of an exporter loop, also one with failed queries or a
\* failed write, is followed by the sleep and the load of another cycle.
C16_LoopNeverEnds ==
    /\ [](pc = "exited" => FatalError)
    /\ (<>(pc = "exited") \/ []<>(pc = "load"))
    /\ ((EndOfPass /\ ParseDurationOk(cfgSleep)) ~> (pc = "load"))
    /\ ((EndOfPass /\ CycleHadFailure /\ ParseDurationOk(cfgSleep)) ~> (pc = "sleep"))

\* A cycle in which a query failed and a write failed has been followed by the
\* sleep, and the load of the next cycle is about to run.
C16_Witness ==
    /\ pc = "load"
    /\ \E k \in 1..Len(results) : QueryFailed(k)
    /\ \E k \in 1..Len(writes) : writes[k] # "ok"

-----------------------------------------------------------------------------
(* C17 *)

\* C17: after a successful write of exporter k in a cycle, the bytes of its
\* file are a function of its mapping entry and of the nodes aggregated for it
\* in that cycle alone; what the directory held before (nothing, bytes of
\* another origin, a file cut short by a failed write) leaves no trace.
C17_WriteReplacesInFull ==
    \A k \in 1..Len(writes) :
        writes[k] = "ok" =>
            /\ YmlName(roleMapping[k].Exporter) \in DOMAIN dir
            /\ dir[YmlName(roleMapping[k].Exporter)]
                   = BytesFor(roleMapping[k], NodesOf(results[k]))

\* The file of the first exporter, cut short by a failed write of the cycle
\* before, has been written again with the nodes of all its roles.
C17_Witness ==
    /\ Len(writes) >= 1
    /\ writes[1] = "ok"
    /\ AllRolesReturned(1)
    /\ NodesOf(results[1]) # << >>
    /\ prev.done
    /\ prev.writes = << "trunc" >>
    /\ YmlName(roleMapping[1].Exporter) \in DOMAIN dirAtStart
    /\ dirAtStart[YmlName(roleMapping[1].Exporter)] = << >>

-----------------------------------------------------------------------------
(* C18 *)

\* C18: as long as the target directory is missing, the process is in its first
\* cycle, at the load or the reconcile step or ended with exit code 1, and has
\* made no query and no write; and no step creates the directory.
C18_MissingDirectoryIsFatal ==
    /\ [](~dirExists =>
             /\ pc \in { "load", "cleanup", "exited" }
             /\ cycle = 1
             /\ results = << >>
             /\ writes = << >>
             /\ DOMAIN dir = {}
             /\ pc = "exited" => exitCode = 1)
    /\ [][~dirExists => ~dirExists']_vars

\* With the directory missing, the listing failed and the process has exited.
C18_Witness ==
    /\ ~dirExists
    /\ pc = "exited"
    /\ cleanupErr = "readdir"
    /\ loadOutcome = "ok"
    /\ roleMapping # << >>

-----------------------------------------------------------------------------
(* C19 *)

\* The name holds none of the characters of the model that a regular
\* expression reads as an operator.
NoMetacharacter(x) == \A k \in 1..Len(x) : x[k] \notin { ".", "(" }

\* C19: no step removes the file <E>.yml of an exporter E without
\* metacharacters that the mapping in force lists: the file leaves the
\* directory only in a reconcile step whose mapping does not list E. Failed
\* queries and failed writes change at most its bytes.
C19_FileOfListedExporterStays ==
    [][ \A name \in DOMAIN dir :
            (IsYmlName(name) /\ NoMetacharacter(YmlStem(name)) /\ name \notin DOMAIN dir')
                => (pc = "cleanup" /\ YmlStem(name) \notin ExporterNames(roleMapping)) ]_vars

\* In the second cycle the reconcile step removed entries and a write failed,
\* and the file written for a listed exporter in the first cycle is still there.
C19_Witness ==
    /\ cycle = 2
    /\ EndOfPass
    /\ prev.done /\ prev.writes # << >> /\ prev.writes[1] = "ok"
    /\ roleMapping # << >>
    /\ roleMapping[1].Exporter = prev.mapping[1].Exporter
    /\ NoMetacharacter(roleMapping[1].Exporter)
    /\ removed # {}
    /\ writes = << "trunc" >>
    /\ QueryFailed(1)
    /\ YmlName(roleMapping[1].Exporter) \in DOMAIN dir

-----------------------------------------------------------------------------
(* C20 *)

====
